---- MODULE Spec2Model ----
(***************************************************************************)
(* Model of the point-and-hold interaction core of the makeover            *)
(* application: the dwell-click tracker (gesture_detector.py), the popup   *)
(* hit-test registry (popup_manager.py) and the step machine of the main   *)
(* loop (main.py).                                                         *)
(*                                                                         *)
(* Time is counted in tenths of a second: time.time() is the variable      *)
(* `now`, and every threshold of the code is written in the same unit      *)
(* (1.5 s = 15).  Optional values (None, or an attribute that does not     *)
(* exist) are the empty tuple, a present value v is <<v>>; a pointer is    *)
(* <<x, y>> or None.                                                       *)
(***************************************************************************)
EXTENDS Integers, Sequences, FiniteSets, TLC

VARIABLES
    now,                \* the wall clock, time.time(), in tenths of a second
    pc,                 \* position in one iteration of run(): "frame" or "key"
    sample,             \* the fingertip pixel the hand tracker gave for the frame
    last_pos,           \* GestureDetector.last_pos (the anchor)
    hold_start_time,    \* GestureDetector.hold_start_time (the anchor time)
    finger_pos,         \* run(): finger_pos returned by detect_finger_click
    is_clicking,        \* run(): is_clicking returned by detect_finger_click
    frame_shape,        \* <<w, h>> of the frame the popups were last drawn on
    left_positions,     \* PopupManager.left_positions
    right_positions,    \* PopupManager.right_positions
    popup_data,         \* PopupManager.popup_data, in insertion order
    current_popup_type, \* PopupManager.current_popup_type
    selected_idx,       \* the result of the latest check_popup_click
    hovered,            \* the id of the popup the latest highlight_popup_on_hover marked
    current_step,               \* ProfessionalMakeoverApp.current_step
    face_detected_time,         \* .face_detected_time (0: not detecting)
    selected_background,        \* .selected_background
    selected_clothing_type,     \* .selected_clothing_type
    selected_clothing_item,     \* .selected_clothing_item
    welcome_start_time,         \* .welcome_start_time, None while the attribute is unset
    clothing_step,              \* .clothing_step, None while the attribute is unset
    selected_clothing_category, \* .selected_clothing_category, None while unset
    selected_accessories,       \* .selected_accessories (a dict), None while unset
    cam_face_detected,  \* CameraHandler.face_detected
    last_face_time,     \* CameraHandler.last_face_time
    items_offered,      \* len() of the list get_available_clothing returned this frame
    saved,              \* save_result was called in the latest frame
    last_op,            \* history: the latest call made on the popup manager
    laid_out,           \* history (SpecRegistry): the number of items the latest draw_*
                        \* call went through, at most the number of its positions
    dropped,            \* history (SpecRegistry): the latest draw_* call discarded a
                        \* target it found in the registry
    overfull,           \* history (SpecRegistry): the latest draw_* call was given more
                        \* items than it has positions
    trail,              \* history: the hits accepted since BackgroundSelection was entered
                        \* (none once a key leaves the pass)
    visited,            \* history: the clothing substeps taken since the last restart
    welcome_entry,      \* history: time of the latest entry into the welcome step
    face_since,         \* history: time since which the face signal held in this stay (0: not)
    prev_place,         \* history: the step, or the substep of clothing_selection, the
                        \* latest frame began in ("none" before the first frame)
    \* history of the tracker, kept to state its properties
    prev_last_pos,          \* last_pos as it was when the latest frame began
    prev_hold_start_time,   \* hold_start_time as it was when the latest frame began
    anchor_since,           \* time at which last_pos was last assigned (0: no anchor)
    prev_click_time,        \* time of the latest click on the current anchor (0: none)
    clicks_on_anchor,       \* clicks fired since the anchor was last set, up to 2
    last_click_time,        \* time of the latest click of all (0: none)
    since_anchor,           \* the samples seen since the anchor was last set, with it
    prev_finger_pos         \* finger_pos as it was when the latest frame began

trackerVars == <<sample, last_pos, hold_start_time, finger_pos, is_clicking>>

trackerHistory == <<prev_last_pos, prev_hold_start_time, anchor_since,
                    prev_click_time, clicks_on_anchor,
                   last_click_time, since_anchor, prev_finger_pos>>

registryVars == <<frame_shape, left_positions, right_positions, popup_data,
                  current_popup_type, selected_idx, hovered>>

workflowVars == <<current_step, face_detected_time, selected_background,
                  selected_clothing_type, selected_clothing_item, welcome_start_time,
                  clothing_step, selected_clothing_category, selected_accessories>>

cameraVars == <<cam_face_detected, last_face_time>>

appHistory == <<trail, visited, welcome_entry, face_since, prev_place>>

appVars == <<workflowVars, cameraVars, items_offered, saved, appHistory>>

registryHistory == <<laid_out, dropped, overfull>>

vars == <<now, pc, trackerVars, trackerHistory, registryVars, last_op,
          registryHistory, appVars>>

None == <<>>

(* ------------------------------ bounds --------------------------------- *)

\* the clock advances in steps of Tick tenths of a second
Tick == 5
\* a frame takes between 1 and MaxDt ticks
MaxDt == 2
\* the tracker is followed until the clock reaches TrackerMaxTime
TrackerMaxTime == 60
\* the time a frame may take
Dts == { Tick * k : k \in 1..MaxDt }
\* a layout is asked for 0..MaxCount items
MaxCount == 9
\* the frames of the application are FramePeriod tenths of a second apart
FramePeriod == 10
\* the clothing engine offers no item or MaxItems items of a category
MaxItems == 3

(* ------------------------- gesture_detector.py ------------------------- *)

hold_threshold == 15
stability_radius == 25

\* frame size set by run() before the tracker is called
FrameW == 1280
FrameH == 720

Square(n) == n * n

\* (mutant) the radius compared strictly
WithinRadius_strict(p, q) ==
    Square(p[1] - q[1]) + Square(p[2] - q[2]) < Square(stability_radius)

\* math.sqrt(dx**2 + dy**2) <= stability_radius, on integer pixels
WithinRadius(p, q) ==
    Square(p[1] - q[1]) + Square(p[2] - q[2]) <= Square(stability_radius)

\* detect_finger_click: the landmark pixel is kept only inside the frame
BoundsCheck(raw, w, h) ==
    IF raw # None /\ 0 <= raw[1] /\ raw[1] < w /\ 0 <= raw[2] /\ raw[2] < h
    THEN raw ELSE None

\* (mutant) the threshold compared strictly
detect_hold_click_strict(lp, hst, fp, t) ==
    IF lp = None
    THEN <<fp, t, FALSE>>
    ELSE IF WithinRadius(fp, lp)
         THEN IF t - hst > hold_threshold
              THEN <<lp, t, TRUE>>
              ELSE <<lp, hst, FALSE>>
         ELSE <<fp, t, FALSE>>

\* (mutant) a click that does not re-arm the anchor time
detect_hold_click_norearm(lp, hst, fp, t) ==
    IF lp = None
    THEN <<fp, t, FALSE>>
    ELSE IF WithinRadius(fp, lp)
         THEN IF t - hst >= hold_threshold
              THEN <<lp, hst, TRUE>>
              ELSE <<lp, hst, FALSE>>
         ELSE <<fp, t, FALSE>>

\* (mutant) a click that re-arms with the value reset_calibration uses
detect_hold_click_rearmzero(lp, hst, fp, t) ==
    IF lp = None
    THEN <<fp, t, FALSE>>
    ELSE IF WithinRadius(fp, lp)
         THEN IF t - hst >= hold_threshold
              THEN <<lp, 0, TRUE>>
              ELSE <<lp, hst, FALSE>>
         ELSE <<fp, t, FALSE>>

\* (mutant) an anchor that follows the pointer
detect_hold_click_drift(lp, hst, fp, t) ==
    IF lp = None
    THEN <<fp, t, FALSE>>
    ELSE IF WithinRadius(fp, lp)
         THEN IF t - hst >= hold_threshold
              THEN <<fp, t, TRUE>>
              ELSE <<fp, hst, FALSE>>
         ELSE <<fp, t, FALSE>>

\* detect_hold_click(finger_pos) at time t, with last_pos = lp and
\* hold_start_time = hst: <<last_pos', hold_start_time', clicked>>
detect_hold_click(lp, hst, fp, t) ==
    IF lp = None
    THEN <<fp, t, FALSE>>
    ELSE IF WithinRadius(fp, lp)
         THEN IF t - hst >= hold_threshold
              THEN <<lp, t, TRUE>>
              ELSE <<lp, hst, FALSE>>
         ELSE <<fp, t, FALSE>>

\* (mutant) the anchor survives the loss of the pointer
reset_calibration_keep(lp, hst) == <<lp, 0>>

\* reset_calibration: <<last_pos', hold_start_time'>>
reset_calibration(lp, hst) == <<None, 0>>

\* detect_finger_click(frame) at time t, the hand tracker giving pixel raw,
\* with last_pos = lp and hold_start_time = hst
detect_finger_click(lp, hst, raw, t) ==
    LET fp == BoundsCheck(raw, FrameW, FrameH) IN
    /\ sample' = raw
    /\ IF fp # None
       THEN LET r == detect_hold_click(lp, hst, fp, t) IN
            /\ last_pos' = r[1]
            /\ hold_start_time' = r[2]
            /\ finger_pos' = fp
            /\ is_clicking' = r[3]
       ELSE /\ last_pos' = reset_calibration(lp, hst)[1]
            /\ hold_start_time' = reset_calibration(lp, hst)[2]
            /\ finger_pos' = None
            /\ is_clicking' = FALSE

(* --------------------------- popup_manager.py -------------------------- *)

PopupW == 120
PopupH == 120
popup_margin == 20
click_padding == 30
\* create_styled_popup: the popup is popup_size[1] + 40 high
LabelH == 40
\* slots per column (calculate_positions), and targets a grid layout takes
SlotsPerColumn == 4
GridCapacity == 8

Min(a, b) == IF a <= b THEN a ELSE b
Max(a, b) == IF a >= b THEN a ELSE b

\* create_styled_popup(...).shape[:2], as <<pw, ph>>
StyledPopupSize == <<PopupW, PopupH + LabelH>>

\* calculate_positions(frame_width, frame_height): <<left_positions, right_positions>>
calculate_positions(fw, fh) ==
    LET left_x  == popup_margin + click_padding
        start_y == (fh - SlotsPerColumn * PopupH - (SlotsPerColumn - 1) * popup_margin) \div 2
        right_x == fw - PopupW - popup_margin - click_padding
        y(i)    == start_y + i * (PopupH + popup_margin)
    IN  << [k \in 1..SlotsPerColumn |-> <<left_x,  y(k - 1)>>],
           [k \in 1..SlotsPerColumn |-> <<right_x, y(k - 1)>>] >>

\* (mutant) the click area is the visual area, without padding
ClickBounds_nopad(x, y, pw, ph, fw, fh) ==
    << Max(0, x), Max(0, y), Min(fw, x + pw), Min(fh, y + ph) >>

\* overlay_popup_with_click_area: the expanded click area, <<x1, y1, x2, y2>>
ClickBounds(x, y, pw, ph, fw, fh) ==
    << Max(0, x - click_padding), Max(0, y - click_padding),
       Min(fw, x + pw + click_padding), Min(fh, y + ph + click_padding) >>

\* (mutant) every popup is registered, within the frame or not
overlay_popup_with_click_area_nocheck(data, position, popup_id, fw, fh) ==
    LET x  == position[1]
        y  == position[2]
        pw == StyledPopupSize[1]
        ph == StyledPopupSize[2]
    IN  Append(data,
          [ id            |-> popup_id,
            position      |-> position,
            size          |-> <<pw, ph>>,
            click_bounds  |-> ClickBounds(x, y, pw, ph, fw, fh),
            visual_bounds |-> <<x, y, x + pw, y + ph>>,
            index         |-> popup_id[2] ])

\* overlay_popup_with_click_area(frame, popup, position, popup_id): popup_data
\* after the call; popup_id is <<prefix, i>> for the string "prefix_i"
overlay_popup_with_click_area(data, position, popup_id, fw, fh) ==
    LET x  == position[1]
        y  == position[2]
        pw == StyledPopupSize[1]
        ph == StyledPopupSize[2]
    IN  IF x + pw > fw \/ y + ph > fh \/ x < 0 \/ y < 0
        THEN data
        ELSE Append(data,
               [ id            |-> popup_id,
                 position      |-> position,
                 size          |-> <<pw, ph>>,
                 click_bounds  |-> ClickBounds(x, y, pw, ph, fw, fh),
                 visual_bounds |-> <<x, y, x + pw, y + ph>>,
                 index         |-> popup_id[2] ])

\* the loop `for i, item in enumerate(items): if i >= len(positions): break`
\* of the draw_* methods, from target i on, over n items
RECURSIVE PlacePopups(_, _, _, _, _, _, _)
PlacePopups(data, positions, prefix, i, n, fw, fh) ==
    IF i >= n \/ i >= Len(positions)
    THEN data
    ELSE PlacePopups(
           overlay_popup_with_click_area(data, positions[i + 1], <<prefix, i>>, fw, fh),
           positions, prefix, i + 1, n, fw, fh)

\* (mutant) the right column is filled before the left one
GridPositions_rightfirst(fw, fh) ==
    calculate_positions(fw, fh)[2] \o calculate_positions(fw, fh)[1]

\* (mutant) the middle target starts at the middle of the frame
AccessoryPositions_offcentre(fw, fh) ==
    << calculate_positions(fw, fh)[1][2],
       << fw \div 2, calculate_positions(fw, fh)[1][2][2] >>,
       calculate_positions(fw, fh)[2][2] >>

\* the positions each layout hands to the loop
GridPositions(fw, fh) ==
    calculate_positions(fw, fh)[1] \o calculate_positions(fw, fh)[2]

InitialChoicePositions(fw, fh) ==
    << calculate_positions(fw, fh)[1][2], calculate_positions(fw, fh)[2][2] >>

AccessoryPositions(fw, fh) ==
    << calculate_positions(fw, fh)[1][2],
       << fw \div 2 - PopupW \div 2, calculate_positions(fw, fh)[1][2][2] >>,
       calculate_positions(fw, fh)[2][2] >>

\* a draw that adds its targets to those the registry holds
DrawPopups_merge(type, prefix, positions, n, fw, fh) ==
    /\ frame_shape' = <<fw, fh>>
    /\ left_positions' = calculate_positions(fw, fh)[1]
    /\ right_positions' = calculate_positions(fw, fh)[2]
    /\ current_popup_type' = type
    /\ popup_data' = PlacePopups(popup_data, positions, prefix, 0, n, fw, fh)

\* a draw that keeps the targets of the registry when the type is the same
DrawPopups_stale(type, prefix, positions, n, fw, fh) ==
    /\ frame_shape' = <<fw, fh>>
    /\ left_positions' = calculate_positions(fw, fh)[1]
    /\ right_positions' = calculate_positions(fw, fh)[2]
    /\ current_popup_type' = type
    /\ popup_data' = IF current_popup_type = type /\ popup_data # <<>>
                     THEN popup_data
                     ELSE PlacePopups(<<>>, positions, prefix, 0, n, fw, fh)

\* the part all draw_* methods share: positions recomputed, type set, data rebuilt
DrawPopups(type, prefix, positions, n, fw, fh) ==
    /\ frame_shape' = <<fw, fh>>
    /\ left_positions' = calculate_positions(fw, fh)[1]
    /\ right_positions' = calculate_positions(fw, fh)[2]
    /\ current_popup_type' = type
    /\ popup_data' = PlacePopups(<<>>, positions, prefix, 0, n, fw, fh)

\* draw_background_popups(frame, background_paths), n = len(background_paths)
draw_background_popups(n, fw, fh) ==
    DrawPopups("bg", "bg", GridPositions(fw, fh), Min(n, GridCapacity), fw, fh)

\* draw_clothing_category_popups(frame, categories), n = len(categories)
draw_clothing_category_popups(n, fw, fh) ==
    DrawPopups("category", "category", GridPositions(fw, fh), Min(n, GridCapacity), fw, fh)

\* draw_clothing_item_popups(frame, clothing_items, clothing_type), n = len(clothing_items)
draw_clothing_item_popups(n, fw, fh) ==
    DrawPopups("item", "item", GridPositions(fw, fh), Min(n, GridCapacity), fw, fh)

\* draw_initial_clothing_choice(frame, categories), n = len(categories)
draw_initial_clothing_choice(n, fw, fh) ==
    DrawPopups("initial_choice", "initial", InitialChoicePositions(fw, fh), n, fw, fh)

\* draw_accessory_popups(frame, accessories), n = len(accessories)
draw_accessory_popups(n, fw, fh) ==
    DrawPopups("accessories", "accessory", AccessoryPositions(fw, fh), n, fw, fh)

\* click_bounds[0] <= x <= click_bounds[2] and click_bounds[1] <= y <= click_bounds[3]
InBounds(b, x, y) ==
    b[1] <= x /\ x <= b[3] /\ b[2] <= y /\ y <= b[4]

\* the loop of check_popup_click over popup_data.items(), from entry k on
RECURSIVE FirstClicked(_, _, _, _)
FirstClicked(data, k, x, y) ==
    IF k > Len(data) THEN None
    ELSE IF InBounds(data[k].click_bounds, x, y) THEN <<data[k].index>>
    ELSE FirstClicked(data, k + 1, x, y)

\* (mutant) the last matching popup wins
RECURSIVE LastClicked(_, _, _, _)
LastClicked(data, k, x, y) ==
    IF k < 1 THEN None
    ELSE IF InBounds(data[k].click_bounds, x, y) THEN <<data[k].index>>
    ELSE LastClicked(data, k - 1, x, y)

check_popup_click_last(data, fp) ==
    IF fp = None THEN None ELSE LastClicked(data, Len(data), fp[1], fp[2])

\* (mutant) a pointer on no popup counts as a hit of the first one
check_popup_click_default(data, fp) ==
    IF fp = None THEN None
    ELSE IF FirstClicked(data, 1, fp[1], fp[2]) = None THEN <<0>>
    ELSE FirstClicked(data, 1, fp[1], fp[2])

\* check_popup_click(finger_pos) on popup_data = data: None or <<index>>
check_popup_click(data, fp) ==
    IF fp = None THEN None ELSE FirstClicked(data, 1, fp[1], fp[2])

\* (mutant) the hover goes by the visual area of the popups
RECURSIVE FirstHovered_visual(_, _, _, _)
FirstHovered_visual(data, k, x, y) ==
    IF k > Len(data) THEN None
    ELSE IF InBounds(data[k].visual_bounds, x, y) THEN <<data[k].id>>
    ELSE FirstHovered_visual(data, k + 1, x, y)

highlight_popup_on_hover_visual(data, fp) ==
    IF fp = None THEN None ELSE FirstHovered_visual(data, 1, fp[1], fp[2])

\* the loop of highlight_popup_on_hover over popup_data.items(), from entry k
\* on, up to its `break`
RECURSIVE FirstHovered(_, _, _, _)
FirstHovered(data, k, x, y) ==
    IF k > Len(data) THEN None
    ELSE IF InBounds(data[k].click_bounds, x, y) THEN <<data[k].id>>
    ELSE FirstHovered(data, k + 1, x, y)

\* highlight_popup_on_hover(frame, finger_pos) on popup_data = data: the id of
\* the popup it draws the highlight around, None when it draws none
highlight_popup_on_hover(data, fp) ==
    IF fp = None THEN None ELSE FirstHovered(data, 1, fp[1], fp[2])

(* ------------------------------- main.py ------------------------------- *)

\* load_assets: self.backgrounds
backgrounds ==
    << "office_modern", "conference_room", "home_office", "library",
       "city_view", "minimalist_white", "tech_office", "boardroom" >>

\* thresholds of the step handlers, in tenths of a second
WelcomeDelay == 30
FaceHold == 20
\* CameraHandler.detect_face: tolerance before a lost face is reported
FaceTolerance == 10

\* the initial choice with shirts on the left
initial_options_swapped == << "shirts", "tshirts" >>
initial_options == << "tshirts", "shirts" >>
\* the accessory choice with ties on the left
accessory_options_swapped == << "ties", "blazers", "no_accessories" >>
accessory_options == << "blazers", "ties", "no_accessories" >>

\* the fields of the application the step machine owns, as one record
WorkflowState ==
    [ current_step               |-> current_step,
      face_detected_time         |-> face_detected_time,
      selected_background        |-> selected_background,
      selected_clothing_type     |-> selected_clothing_type,
      selected_clothing_item     |-> selected_clothing_item,
      welcome_start_time         |-> welcome_start_time,
      clothing_step              |-> clothing_step,
      selected_clothing_category |-> selected_clothing_category,
      selected_accessories       |-> selected_accessories ]

\* the fields after a handler: w is the record the handler computed
SetWorkflow(w) ==
    /\ current_step' = w.current_step
    /\ face_detected_time' = w.face_detected_time
    /\ selected_background' = w.selected_background
    /\ selected_clothing_type' = w.selected_clothing_type
    /\ selected_clothing_item' = w.selected_clothing_item
    /\ welcome_start_time' = w.welcome_start_time
    /\ clothing_step' = w.clothing_step
    /\ selected_clothing_category' = w.selected_clothing_category
    /\ selected_accessories' = w.selected_accessories

\* the state __init__ leaves (attributes not yet set are None)
InitialWorkflowState ==
    [ current_step               |-> "welcome",
      face_detected_time         |-> 0,
      selected_background        |-> None,
      selected_clothing_type     |-> None,
      selected_clothing_item     |-> None,
      welcome_start_time         |-> None,
      clothing_step              |-> None,
      selected_clothing_category |-> None,
      selected_accessories       |-> None ]

\* handle_welcome_screen_modern at time t
handle_welcome_screen_modern(w, t) ==
    LET start == IF w.welcome_start_time = None THEN <<t>> ELSE w.welcome_start_time
        w1    == [w EXCEPT !.welcome_start_time = start]
    IN  IF t - start[1] > WelcomeDelay
        THEN [w1 EXCEPT !.current_step = "face_detection"]
        ELSE w1

\* (mutant) a detector that reports the loss of the face at once
detect_face_raw(fd, lft, face, t) ==
    IF face THEN <<TRUE, t, TRUE>> ELSE <<FALSE, lft, FALSE>>

\* CameraHandler.detect_face at time t, with face_detected = fd and
\* last_face_time = lft; face: a face of more than 2% of the frame was found.
\* <<face_detected', last_face_time', returned value>>
detect_face(fd, lft, face, t) ==
    IF face
    THEN <<TRUE, t, TRUE>>
    ELSE IF t - lft > FaceTolerance
         THEN <<FALSE, lft, FALSE>>
         ELSE <<fd, lft, fd>>

\* handle_face_detection_modern at time t, detect_face having returned detected
handle_face_detection_modern(w, detected, t) ==
    IF detected
    THEN LET since == IF w.face_detected_time = 0 THEN t ELSE w.face_detected_time
             w1    == [w EXCEPT !.face_detected_time = since]
         IN  IF t - since > FaceHold
             THEN [w1 EXCEPT !.current_step = "background_selection"]
             ELSE w1
    ELSE [w EXCEPT !.face_detected_time = 0]

\* `selected_idx is not None and selected_idx < n`
ValidIndex(idx, n) == idx # None /\ idx[1] < n

\* a background handler that takes the path after the one that was hit
handle_background_selection_modern_next(w, idx) ==
    IF ValidIndex(idx, Len(backgrounds))
    THEN [w EXCEPT !.selected_background =
                       <<backgrounds[((idx[1] + 1) % Len(backgrounds)) + 1]>>,
                   !.current_step = "clothing_selection"]
    ELSE w

\* a background handler that moves on whatever the hit query gave
handle_background_selection_modern_miss(w, idx) ==
    IF ValidIndex(idx, Len(backgrounds))
    THEN [w EXCEPT !.selected_background = <<backgrounds[idx[1] + 1]>>,
                   !.current_step = "clothing_selection"]
    ELSE [w EXCEPT !.current_step = "clothing_selection"]

\* handle_background_selection_modern, after the popups were drawn: idx is
\* check_popup_click(finger_pos) when is_clicking, None otherwise
handle_background_selection_modern(w, idx) ==
    IF ValidIndex(idx, Len(backgrounds))
    THEN [w EXCEPT !.selected_background = <<backgrounds[idx[1] + 1]>>,
                   !.current_step = "clothing_selection"]
    ELSE w

\* an apply_accessory that stores the number shown to the user (index + 1)
apply_accessory_shown(w, accessory_type, item_index) ==
    LET d == IF w.selected_accessories = None THEN <<>> ELSE w.selected_accessories[1]
    IN  [w EXCEPT !.selected_accessories =
           << [k \in (DOMAIN d) \cup {accessory_type} |->
                 IF k = accessory_type THEN item_index + 1 ELSE d[k]] >>]

\* (mutant) an apply_accessory that records the item under both types
apply_accessory_both(w, accessory_type, item_index) ==
    [w EXCEPT !.selected_accessories =
       << [k \in { "blazers", "ties" } |-> item_index] >>]

\* apply_accessory(accessory_type, item_index)
apply_accessory(w, accessory_type, item_index) ==
    LET d == IF w.selected_accessories = None THEN <<>> ELSE w.selected_accessories[1]
    IN  [w EXCEPT !.selected_accessories =
           << [k \in (DOMAIN d) \cup {accessory_type} |->
                 IF k = accessory_type THEN item_index ELSE d[k]] >>]

\* the branch of handle_clothing_selection_modern taken this frame
ClothingBranch(w) ==
    IF w.clothing_step = None \/ w.clothing_step = <<"initial">>
    THEN "initial" ELSE w.clothing_step[1]

\* the category whose items a picker substep asks the clothing engine for
PickerCategory(branch) ==
    CASE branch = "tshirt_selection" -> "tshirts"
      [] branch = "shirt_selection"  -> "shirts"
      [] branch = "blazer_selection" -> "blazers"
      [] branch = "tie_selection"    -> "ties"
      [] OTHER -> ""

IsPicker(branch) == PickerCategory(branch) # ""

\* handle_clothing_selection_modern, after the popups of the branch were drawn:
\* idx is check_popup_click(finger_pos) when is_clicking and the branch asked
\* for it, None otherwise; n is the number of items the clothing engine gave
handle_clothing_selection_modern(w, idx, n) ==
    LET branch == ClothingBranch(w) IN
    CASE branch = "initial" ->
           LET w1 == [w EXCEPT !.clothing_step = <<"initial">>] IN
           IF ValidIndex(idx, Len(initial_options))
           THEN LET cat == initial_options[idx[1] + 1] IN
                [w1 EXCEPT !.selected_clothing_category = <<cat>>,
                           !.clothing_step =
                               IF cat = "tshirts" THEN <<"tshirt_selection">>
                               ELSE <<"shirt_selection">>]
           ELSE w1
      [] branch = "tshirt_selection" ->
           IF n > 0 /\ ValidIndex(idx, n)
           THEN [w EXCEPT !.selected_clothing_type = <<"tshirts">>,
                          !.selected_clothing_item = idx,
                          !.current_step = "complete"]
           ELSE w
      [] branch = "shirt_selection" ->
           IF n > 0 /\ ValidIndex(idx, n)
           THEN [w EXCEPT !.selected_clothing_type = <<"shirts">>,
                          !.selected_clothing_item = idx,
                          !.clothing_step = <<"accessories_selection">>]
           ELSE w
      [] branch = "accessories_selection" ->
           IF ValidIndex(idx, Len(accessory_options))
           THEN LET acc == accessory_options[idx[1] + 1] IN
                IF acc = "no_accessories" THEN [w EXCEPT !.current_step = "complete"]
                ELSE IF acc = "blazers"
                     THEN [w EXCEPT !.clothing_step = <<"blazer_selection">>]
                     ELSE [w EXCEPT !.clothing_step = <<"tie_selection">>]
           ELSE w
      [] branch = "blazer_selection" ->
           IF n > 0 /\ ValidIndex(idx, n)
           THEN [apply_accessory(w, "blazers", idx[1]) EXCEPT !.current_step = "complete"]
           ELSE w
      [] branch = "tie_selection" ->
           IF n > 0 /\ ValidIndex(idx, n)
           THEN [apply_accessory(w, "ties", idx[1]) EXCEPT !.current_step = "complete"]
           ELSE w
      [] OTHER -> w

\* a restart that leaves the accessories where they are
restart_application_keep_accessories(w) ==
    [w EXCEPT !.current_step = "welcome",
              !.face_detected_time = 0,
              !.selected_background = None,
              !.selected_clothing_type = None,
              !.selected_clothing_item = None,
              !.clothing_step = None,
              !.selected_clothing_category = None,
              !.welcome_start_time = None]

\* a restart that leaves the welcome timer where it is
restart_application_keep_timer(w) ==
    [w EXCEPT !.current_step = "welcome",
              !.face_detected_time = 0,
              !.selected_background = None,
              !.selected_clothing_type = None,
              !.selected_clothing_item = None,
              !.clothing_step = None,
              !.selected_clothing_category = None,
              !.selected_accessories = None]

\* (mutant) a restart that clears the selections and stays in the step
restart_application_keep_step(w) ==
    [w EXCEPT !.face_detected_time = 0,
              !.selected_background = None,
              !.selected_clothing_type = None,
              !.selected_clothing_item = None,
              !.clothing_step = None,
              !.selected_clothing_category = None,
              !.selected_accessories = None,
              !.welcome_start_time = None]

\* restart_application
restart_application(w) ==
    [w EXCEPT !.current_step = "welcome",
              !.face_detected_time = 0,
              !.selected_background = None,
              !.selected_clothing_type = None,
              !.selected_clothing_item = None,
              !.clothing_step = None,
              !.selected_clothing_category = None,
              !.selected_accessories = None,
              !.welcome_start_time = None]

\* (mutant) a start-over that starts the welcome timer anew
start_over_cleartimer(w) == [w EXCEPT !.current_step = "welcome", !.welcome_start_time = None]

\* run(): `elif key == ord('s')`
start_over(w) == [w EXCEPT !.current_step = "welcome"]

(* ------------------------- the initial state --------------------------- *)

\* ProfessionalMakeoverApp.__init__, CameraHandler.__init__
AppInit ==
    /\ current_step = InitialWorkflowState.current_step
    /\ face_detected_time = InitialWorkflowState.face_detected_time
    /\ selected_background = InitialWorkflowState.selected_background
    /\ selected_clothing_type = InitialWorkflowState.selected_clothing_type
    /\ selected_clothing_item = InitialWorkflowState.selected_clothing_item
    /\ welcome_start_time = InitialWorkflowState.welcome_start_time
    /\ clothing_step = InitialWorkflowState.clothing_step
    /\ selected_clothing_category = InitialWorkflowState.selected_clothing_category
    /\ selected_accessories = InitialWorkflowState.selected_accessories
    /\ cam_face_detected = FALSE
    /\ last_face_time = 0
    /\ items_offered = 0
    /\ saved = FALSE
    /\ trail = <<>>
    /\ visited = {}
    /\ welcome_entry = now
    /\ face_since = 0
    /\ prev_place = "none"

\* GestureDetector.__init__
GestureDetectorInit ==
    /\ last_pos = None
    /\ hold_start_time = 0

\* PopupManager.__init__
RegistryInit ==
    /\ frame_shape = None
    /\ left_positions = <<>>
    /\ right_positions = <<>>
    /\ popup_data = <<>>
    /\ current_popup_type = ""
    /\ selected_idx = None
    /\ hovered = None
    /\ last_op = "init"
    /\ laid_out = 0
    /\ dropped = FALSE
    /\ overfull = FALSE

TrackerHistoryInit ==
    /\ prev_last_pos = None
    /\ prev_hold_start_time = 0
    /\ anchor_since = 0
    /\ prev_click_time = 0
    /\ clicks_on_anchor = 0
    /\ last_click_time = 0
    /\ since_anchor = {}
    /\ prev_finger_pos = None

(* ----------------------- one iteration of run() ------------------------ *)

\* (mutant) only the background step draws its popups
DrawForStep_background(w, n) ==
    IF w.current_step = "background_selection"
    THEN draw_background_popups(Len(backgrounds), FrameW, FrameH)
    ELSE UNCHANGED <<frame_shape, left_positions, right_positions,
                     popup_data, current_popup_type>>

\* the popups the handler of the step draws before it looks at the click
DrawForStep(w, n) ==
    IF w.current_step = "background_selection"
    THEN draw_background_popups(Len(backgrounds), FrameW, FrameH)
    ELSE IF w.current_step = "clothing_selection"
    THEN LET branch == ClothingBranch(w) IN
         IF branch = "initial"
         THEN draw_initial_clothing_choice(Len(initial_options), FrameW, FrameH)
         ELSE IF branch = "accessories_selection"
         THEN draw_accessory_popups(Len(accessory_options), FrameW, FrameH)
         ELSE IF IsPicker(branch) /\ n > 0
         THEN draw_clothing_item_popups(n, FrameW, FrameH)
         ELSE UNCHANGED <<frame_shape, left_positions, right_positions,
                          popup_data, current_popup_type>>
    ELSE UNCHANGED <<frame_shape, left_positions, right_positions,
                     popup_data, current_popup_type>>

\* whether the handler of the step calls highlight_popup_on_hover this frame
AsksHover(w, n) ==
    /\ finger_pos' # None
    /\ \/ w.current_step = "background_selection"
       \/ /\ w.current_step = "clothing_selection"
          /\ (IsPicker(ClothingBranch(w)) => n > 0)

\* (mutant) the hit query is made for every pointer, clicking or not
AsksHit_hover(w, n) ==
    /\ finger_pos' # None
    /\ \/ w.current_step = "background_selection"
       \/ /\ w.current_step = "clothing_selection"
          /\ (IsPicker(ClothingBranch(w)) => n > 0)

\* whether the handler of the step calls check_popup_click this frame
AsksHit(w, n) ==
    /\ is_clicking'
    /\ \/ w.current_step = "background_selection"
       \/ /\ w.current_step = "clothing_selection"
          /\ (IsPicker(ClothingBranch(w)) => n > 0)

\* (mutant) a dispatch that tests the steps one after the other (`if` in place
\* of `elif`), so that a handler that moves on hands over to the next one
StepHandler_chained(w, idx, detected, n, t) ==
    LET w1 == IF w.current_step = "welcome"
              THEN handle_welcome_screen_modern(w, t) ELSE w
        w2 == IF w1.current_step = "face_detection"
              THEN handle_face_detection_modern(w1, detected, t) ELSE w1
        w3 == IF w2.current_step = "background_selection"
              THEN handle_background_selection_modern(w2, idx) ELSE w2
    IN  IF w3.current_step = "clothing_selection"
        THEN handle_clothing_selection_modern(w3, idx, n) ELSE w3

\* (mutant) a dispatch whose completion screen restarts on a click
StepHandler_again(w, idx, detected, n, t) ==
    CASE w.current_step = "welcome" -> handle_welcome_screen_modern(w, t)
      [] w.current_step = "face_detection" -> handle_face_detection_modern(w, detected, t)
      [] w.current_step = "background_selection" -> handle_background_selection_modern(w, idx)
      [] w.current_step = "clothing_selection" -> handle_clothing_selection_modern(w, idx, n)
      [] OTHER -> IF is_clicking' THEN restart_application(w) ELSE w

\* (mutant) a completion screen that saves whenever a pointer is present
handle_complete_screen_modern_noclick(clicking, fp) == fp # None

\* handle_complete_screen_modern(frame, finger_pos, is_clicking): whether
\* save_result is called
handle_complete_screen_modern(clicking, fp) == clicking /\ fp # None

\* the step handler run() dispatches to, given the hit index
StepHandler(w, idx, detected, n, t) ==
    CASE w.current_step = "welcome" -> handle_welcome_screen_modern(w, t)
      [] w.current_step = "face_detection" -> handle_face_detection_modern(w, detected, t)
      [] w.current_step = "background_selection" -> handle_background_selection_modern(w, idx)
      [] w.current_step = "clothing_selection" -> handle_clothing_selection_modern(w, idx, n)
      [] OTHER -> w

\* what the history variables record of one frame
RecordAppHistory(w, idx) ==
    LET substep(cs) == IF cs = None THEN <<"initial">> ELSE cs
        accepted ==
          /\ idx # None
          /\ \/ current_step' # w.current_step
             \/ substep(clothing_step') # substep(w.clothing_step)
        here == IF w.current_step = "clothing_selection"
                THEN ClothingBranch(w) ELSE w.current_step
    IN
    /\ trail' =
         IF w.current_step = "face_detection" /\ current_step' = "background_selection"
         THEN <<>>
         ELSE IF accepted THEN Append(trail, <<here, idx[1]>>)
         ELSE trail
    /\ visited' =
         IF clothing_step' = None THEN visited ELSE visited \cup {clothing_step'[1]}
    /\ prev_place' = here

\* The application is followed for an unbounded time on a clock whose origin
\* moves with every frame: the reading at the frame being processed is always
\* Epoch, and the timestamps the objects hold are moved back by the time dt the
\* frame took.  The code only ever subtracts a timestamp from the present
\* reading and compares the difference with a threshold of at most
\* WelcomeDelay, so a timestamp older than Horizon is kept at Horizon; the
\* value 0, which the code uses for "no timestamp", is left as it is.
Horizon == WelcomeDelay + Max(FramePeriod, MaxDt * Tick)
Epoch == Horizon + 1

Rebase(ts, dt) == IF ts = 0 THEN 0 ELSE Max(ts - dt, Epoch - Horizon)

RebaseWorkflow(w, dt) ==
    [w EXCEPT !.face_detected_time = Rebase(@, dt),
              !.welcome_start_time = IF @ = None THEN None ELSE <<Rebase(@[1], dt)>>]

\* what the history variables record of the timed steps: the entry into the
\* welcome step is kept through the frame that leaves it, and so is the time
\* since which the face signal has held on every frame of the stay
RecordTimers(w, dt, detected) ==
    /\ welcome_entry' =
         IF w.current_step = "welcome" THEN Rebase(welcome_entry, dt) ELSE 0
    /\ face_since' =
         IF w.current_step = "face_detection" /\ detected
         THEN (IF face_since = 0 THEN now' ELSE Rebase(face_since, dt))
         ELSE 0

\* lines 88-117 of run(): the frame arrives dt after the previous one, the hand
\* tracker gives raw, the face detector gives face, the clothing engine a list
\* of n items
ProcessFrame(dt, raw, face, n) ==
    /\ pc = "frame"
    /\ now' = Epoch
    /\ detect_finger_click(last_pos, Rebase(hold_start_time, dt), raw, now')
    /\ LET w   == RebaseWorkflow(WorkflowState, dt)
           lft == Rebase(last_face_time, dt)
           cam == IF w.current_step = "face_detection"
                  THEN detect_face(cam_face_detected, lft, face, now')
                  ELSE <<cam_face_detected, lft, FALSE>>
       IN  /\ cam_face_detected' = cam[1]
           /\ last_face_time' = cam[2]
           /\ DrawForStep(w, n)
           /\ hovered' = IF AsksHover(w, n)
                         THEN highlight_popup_on_hover(popup_data', finger_pos')
                         ELSE None
           /\ selected_idx' = IF AsksHit(w, n)
                              THEN check_popup_click(popup_data', finger_pos')
                              ELSE None
           /\ SetWorkflow(StepHandler(w, selected_idx', cam[3], n, now'))
           /\ items_offered' = n
           /\ saved' = /\ w.current_step = "complete"
                       /\ handle_complete_screen_modern(is_clicking', finger_pos')
           /\ last_op' = IF AsksHit(w, n) THEN "query" ELSE "frame"
           /\ RecordAppHistory(w, selected_idx')
           /\ UNCHANGED registryHistory
           /\ RecordTimers(w, dt, cam[3])
    /\ pc' = "key"
    /\ UNCHANGED trackerHistory

\* lines 119-128 of run(): no key, 'f', or a key the loop ignores
KeyNone ==
    /\ pc = "key"
    /\ pc' = "frame"
    /\ UNCHANGED <<now, trackerVars, trackerHistory, registryVars, last_op,
                   registryHistory, appVars>>

\* `elif key == ord('s')`
KeyStartOver ==
    /\ pc = "key"
    /\ pc' = "frame"
    /\ SetWorkflow(start_over(WorkflowState))
    /\ welcome_entry' = now
    /\ face_since' = 0
    /\ trail' = <<>>
    /\ UNCHANGED <<now, trackerVars, trackerHistory, registryVars, last_op,
                   registryHistory, cameraVars, items_offered, saved, visited,
                   prev_place>>

\* `elif key == ord('r')`
KeyRestart ==
    /\ pc = "key"
    /\ pc' = "frame"
    /\ SetWorkflow(restart_application(WorkflowState))
    /\ trail' = <<>>
    /\ visited' = {}
    /\ welcome_entry' = now
    /\ face_since' = 0
    /\ UNCHANGED <<now, trackerVars, trackerHistory, registryVars, last_op,
                   registryHistory, cameraVars, items_offered, saved, prev_place>>

\* the pixels the hand tracker gives: none, the middle of the second
\* left-column slot, of the centre slot and of the second right-column slot
AppSamples ==
    { None, <<110, 310>>, <<640, 310>>, <<1170, 310>> }

\* the pixels of a session: the middle of the first three left-column slots
\* as well
SessionSamples == AppSamples \cup { <<110, 170>>, <<110, 450>> }

ItemCounts == { 0, MaxItems }

Init ==
    /\ now = Epoch
    /\ pc = "frame"
    /\ sample = None
    /\ GestureDetectorInit
    /\ finger_pos = None
    /\ is_clicking = FALSE
    /\ TrackerHistoryInit
    /\ RegistryInit
    /\ AppInit

\* a frame: the face detector is only asked in face_detection, the clothing
\* engine only in the picker substeps
Frames(dts, samples, faces) ==
    \E dt \in dts, raw \in samples :
      \E face \in (IF current_step = "face_detection" THEN faces ELSE {FALSE}) :
        \E n \in (IF current_step = "clothing_selection"
                     /\ IsPicker(ClothingBranch(WorkflowState))
                  THEN ItemCounts ELSE {0}) :
          ProcessFrame(dt, raw, face, n)

\* the application: frames FramePeriod apart, and the keys
Next ==
    \/ Frames({FramePeriod}, AppSamples, BOOLEAN)
    \/ KeyNone
    \/ KeyStartOver
    \/ KeyRestart

Spec == Init /\ [][Next]_vars

\* sessions: the pointer on any of the slots the two paths click, a face found
\* or not, and the keys
SessionNext ==
    \/ Frames({FramePeriod}, SessionSamples, BOOLEAN)
    \/ KeyNone
    \/ KeyStartOver
    \/ KeyRestart

SpecSession == Init /\ [][SessionNext]_vars

(* ----------------------- the tracker on its own ------------------------ *)

\* pixels around one anchor: at the radius, just beyond it, far away, off-frame
TrackerSamples ==
    { None, <<100, 100>>, <<115, 120>>, <<100, 126>>, <<300, 300>>,
      <<1280, 100>> }

TrackerInit ==
    /\ now = 0
    /\ pc = "frame"
    /\ sample = None
    /\ GestureDetectorInit
    /\ finger_pos = None
    /\ is_clicking = FALSE
    /\ TrackerHistoryInit
    /\ RegistryInit
    /\ AppInit

\* what the history variables record of one call of the tracker
RecordTrackerHistory ==
    /\ prev_last_pos' = last_pos
    /\ prev_hold_start_time' = hold_start_time
    /\ anchor_since' =
         IF last_pos' = None THEN 0
         ELSE IF last_pos' = last_pos THEN anchor_since ELSE now'
    /\ prev_click_time' =
         IF is_clicking' THEN now'
         ELSE IF last_pos' = last_pos /\ last_pos # None THEN prev_click_time ELSE 0
    /\ clicks_on_anchor' =
         IF last_pos' # last_pos \/ last_pos = None THEN 0
         ELSE IF is_clicking' /\ clicks_on_anchor < 2 THEN clicks_on_anchor + 1
         ELSE clicks_on_anchor
    /\ last_click_time' = IF is_clicking' THEN now' ELSE last_click_time
    /\ since_anchor' =
         IF last_pos' = None THEN {}
         ELSE IF last_pos' # last_pos THEN {finger_pos'}
         ELSE since_anchor \cup {finger_pos'}
    /\ prev_finger_pos' = finger_pos

\* one frame given to the tracker alone
TrackFrame(dt, raw) ==
    /\ now + dt <= TrackerMaxTime
    /\ now' = now + dt
    /\ detect_finger_click(last_pos, hold_start_time, raw, now')
    /\ RecordTrackerHistory
    /\ UNCHANGED <<pc, registryVars, last_op, registryHistory, appVars>>

TrackerNext == \E dt \in Dts, raw \in TrackerSamples : TrackFrame(dt, raw)

SpecTracker == TrackerInit /\ [][TrackerNext]_vars

(* --------------------- the popup manager on its own -------------------- *)

\* frames: the one run() uses; one whose row start is negative and odd, too
\* low for the first and the last rows and clamping the top click edge; one
\* clamping the bottom click edge; one too narrow for any popup
FrameSizes ==
    { <<1280, 720>>, <<300, 301>>, <<1280, 640>>, <<150, 720>> }

\* pointers tried on a layout: no pointer, a point off every target, the
\* middle of the second left slot of a 1280x720 frame, and for
\* each target two corners of its click area, the pixels just outside them,
\* the middle of the popup and its top left corner
ProbePoints(data) ==
    { None, <<640, 10>>, <<110, 310>> } \cup
    UNION { LET c == data[k].click_bounds
                v == data[k].visual_bounds
            IN  { <<c[1], c[2]>>, <<c[3], c[4]>>, <<c[1] - 1, c[2]>>,
                  <<c[3], c[4] + 1>>, <<(v[1] + v[3]) \div 2, (v[2] + v[4]) \div 2>>,
                  <<v[1], v[2]>> }
          : k \in 1..Len(data) }

RegistrySpecInit ==
    /\ now = 0
    /\ pc = "frame"
    /\ sample = None
    /\ GestureDetectorInit
    /\ finger_pos = None
    /\ is_clicking = FALSE
    /\ TrackerHistoryInit
    /\ RegistryInit
    /\ AppInit

RegistryFrame == <<now, pc, sample, last_pos, hold_start_time, is_clicking,
                   trackerHistory, appVars>>

\* a layout call takes no pointer and returns no index
NoQuery ==
    /\ last_op' = "layout"
    /\ finger_pos' = None
    /\ selected_idx' = None
    /\ hovered' = None

\* what the history variables record of a draw_* call given n items that has
\* cap positions
RecordLayout(n, cap) ==
    /\ laid_out' = Min(n, cap)
    /\ overfull' = (n > cap)
    /\ dropped' = \E k \in 1..Len(popup_data) :
                    \A j \in 1..Len(popup_data') : popup_data'[j] # popup_data[k]

LayoutBackground(n, size) ==
    /\ draw_background_popups(n, size[1], size[2])
    /\ RecordLayout(n, GridCapacity)
    /\ NoQuery
    /\ UNCHANGED RegistryFrame

LayoutCategory(n, size) ==
    /\ draw_clothing_category_popups(n, size[1], size[2])
    /\ RecordLayout(n, GridCapacity)
    /\ NoQuery
    /\ UNCHANGED RegistryFrame

LayoutItems(n, size) ==
    /\ draw_clothing_item_popups(n, size[1], size[2])
    /\ RecordLayout(n, GridCapacity)
    /\ NoQuery
    /\ UNCHANGED RegistryFrame

LayoutInitialChoice(n, size) ==
    /\ draw_initial_clothing_choice(n, size[1], size[2])
    /\ RecordLayout(n, Len(InitialChoicePositions(size[1], size[2])))
    /\ NoQuery
    /\ UNCHANGED RegistryFrame

LayoutAccessories(n, size) ==
    /\ draw_accessory_popups(n, size[1], size[2])
    /\ RecordLayout(n, Len(AccessoryPositions(size[1], size[2])))
    /\ NoQuery
    /\ UNCHANGED RegistryFrame

\* highlight_popup_on_hover(frame, finger_pos), then
\* selected_idx = check_popup_click(finger_pos), as the handlers call them
QueryHit(p) ==
    /\ finger_pos' = p
    /\ hovered' = highlight_popup_on_hover(popup_data, p)
    /\ selected_idx' = check_popup_click(popup_data, p)
    /\ last_op' = "query"
    /\ UNCHANGED <<RegistryFrame, registryHistory, frame_shape, left_positions, right_positions,
                   popup_data, current_popup_type>>

RegistryNext ==
    \/ \E n \in 0..MaxCount, size \in FrameSizes : LayoutBackground(n, size)
    \/ \E n \in 0..MaxCount, size \in FrameSizes : LayoutCategory(n, size)
    \/ \E n \in 0..MaxCount, size \in FrameSizes : LayoutItems(n, size)
    \/ \E n \in 0..MaxCount, size \in FrameSizes : LayoutInitialChoice(n, size)
    \/ \E n \in 0..MaxCount, size \in FrameSizes : LayoutAccessories(n, size)
    \/ \E p \in ProbePoints(popup_data) : QueryHit(p)

SpecRegistry == RegistrySpecInit /\ [][RegistryNext]_vars

(* ------------------------ properties of the tracker -------------------- *)

\* a step in which a frame was processed: the clock was read again
TrackerStep == now' # now

Present(raw) == BoundsCheck(raw, FrameW, FrameH) # None

Dist2(p, q) == Square(p[1] - q[1]) + Square(p[2] - q[2])

\* C1: Dwell timing. On a frame whose sample lies within stability_radius of
\* the anchor, the tracker reports a click exactly when the time since the
\* anchor time has reached hold_threshold: true on the first such frame, false
\* on every earlier frame of the hold.
C1_DwellTiming ==
    [][ (TrackerStep /\ last_pos # None /\ Present(sample')
           /\ Dist2(sample', last_pos) <= Square(stability_radius))
        => (is_clicking' <=> (now' - hold_start_time >= hold_threshold)) ]_vars

\* a click fired on a sample that is not the anchor itself, exactly at the threshold
C1_Witness ==
    /\ is_clicking
    /\ finger_pos # last_pos
    /\ now - prev_hold_start_time = hold_threshold

\* C2: Movement cancels dwell. A present sample strictly beyond
\* stability_radius of the anchor becomes the new anchor with anchor time now
\* and fires no click, however long the old anchor was held; a sample at
\* distance exactly stability_radius keeps the anchor.
C2_MovementCancels ==
    [][ (TrackerStep /\ last_pos # None /\ Present(sample'))
        => /\ (Dist2(sample', last_pos) > Square(stability_radius))
                => /\ last_pos' = sample'
                   /\ hold_start_time' = now'
                   /\ ~is_clicking'
           /\ (Dist2(sample', last_pos) = Square(stability_radius))
                => /\ last_pos' = last_pos
                   /\ (is_clicking' \/ hold_start_time' = hold_start_time) ]_vars

\* a jump beyond the radius arrived after the old anchor had been held long enough
C2_Witness ==
    /\ prev_last_pos # None
    /\ Present(sample)
    /\ Dist2(sample, prev_last_pos) > Square(stability_radius)
    /\ now - prev_hold_start_time >= hold_threshold
    /\ ~is_clicking
    /\ last_pos = sample

\* C3: Re-arm. A click resets the anchor time to now and keeps the anchor, and
\* while the samples stay within stability_radius of that anchor the next click
\* fires exactly when a further hold_threshold has elapsed since the previous
\* click.
C3_Rearm ==
    [][ TrackerStep
        => /\ is_clicking' => (hold_start_time' = now' /\ last_pos' = last_pos)
           /\ (clicks_on_anchor >= 1 /\ Present(sample')
                 /\ Dist2(sample', last_pos) <= Square(stability_radius))
                => (is_clicking' <=> (now' - prev_click_time >= hold_threshold)) ]_vars

\* a second click fired on the same anchor
C3_Witness ==
    /\ is_clicking
    /\ clicks_on_anchor = 2

\* C4: Lost pointer. A frame without a sample returns (None, false) and clears
\* the anchor and the anchor time; the first sample after that only sets a new
\* anchor, and a click needs a full hold_threshold since the anchor was set.
C4_LostPointer ==
    [][ TrackerStep
        => /\ ~Present(sample')
                => /\ finger_pos' = None
                   /\ ~is_clicking'
                   /\ last_pos' = None
                   /\ hold_start_time' = 0
           /\ (last_pos = None /\ Present(sample'))
                => /\ ~is_clicking'
                   /\ last_pos' = sample'
                   /\ hold_start_time' = now'
           /\ is_clicking'
                => (last_pos # None /\ now' - anchor_since >= hold_threshold) ]_vars

\* the pointer was lost after the anchor had been held for the whole threshold
C4_Witness ==
    /\ ~Present(sample)
    /\ prev_last_pos # None
    /\ now - prev_hold_start_time >= hold_threshold
    /\ last_pos = None
    /\ hold_start_time = 0

(* --------------------- properties of the popup manager ----------------- *)

\* the targets of the registry whose click_rect contains point p, as positions
\* in registration order
TargetsContaining(p) ==
    { k \in 1..Len(popup_data) :
        /\ p[1] \in popup_data[k].click_bounds[1]..popup_data[k].click_bounds[3]
        /\ p[2] \in popup_data[k].click_bounds[2]..popup_data[k].click_bounds[4] }

FirstOf(S) == CHOOSE k \in S : \A j \in S : k <= j

\* C5: query_hit. For an absent pointer the result is None; otherwise it is the
\* index of the first target, in registration order of the latest layout, whose
\* click_rect contains the point, edges included, and None when there is none.
C5_QueryHit ==
    last_op = "query"
    => IF finger_pos = None \/ TargetsContaining(finger_pos) = {}
       THEN selected_idx = None
       ELSE selected_idx = <<popup_data[FirstOf(TargetsContaining(finger_pos))].index>>

\* a query on the edge of a click_rect, at a point two click_rects share
C5_Witness ==
    /\ last_op = "query"
    /\ finger_pos # None
    /\ Cardinality(TargetsContaining(finger_pos)) = 2
    /\ \E k \in TargetsContaining(finger_pos) :
         finger_pos = <<popup_data[k].click_bounds[3], popup_data[k].click_bounds[4]>>
    /\ selected_idx # None

\* C6: For every placed target, click_rect contains visual_rect and equals
\* visual_rect expanded by click_padding on each side, clamped to the screen.
C6_ClickRect ==
    \A k \in 1..Len(popup_data) :
        LET c == popup_data[k].click_bounds
            v == popup_data[k].visual_bounds
        IN  /\ c[1] <= v[1] /\ c[2] <= v[2] /\ v[3] <= c[3] /\ v[4] <= c[4]
            /\ c[1] = Max(0, v[1] - click_padding)
            /\ c[2] = Max(0, v[2] - click_padding)
            /\ c[3] = Min(frame_shape[1], v[3] + click_padding)
            /\ c[4] = Min(frame_shape[2], v[4] + click_padding)

\* a layout with a target whose click_rect is clamped at the bottom of the
\* screen and a target whose click_rect is not clamped
C6_Witness ==
    /\ \E k \in 1..Len(popup_data) :
         /\ popup_data[k].visual_bounds[4] + click_padding > frame_shape[2]
         /\ popup_data[k].click_bounds[4] = frame_shape[2]
    /\ \E k \in 1..Len(popup_data) :
         /\ popup_data[k].click_bounds[2] = popup_data[k].visual_bounds[2] - click_padding
         /\ popup_data[k].click_bounds[4] = popup_data[k].visual_bounds[4] + click_padding

(* ------------------------ properties of the workflow ------------------- *)

AccessoryBranches == { "accessories_selection", "blazer_selection", "tie_selection" }

\* no blazer and no tie is recorded
NoAccessory ==
    \/ selected_accessories = None
    \/ (DOMAIN selected_accessories[1]) \cap { "blazers", "ties" } = {}

\* C7: in every state reachable by frames, clicks, the restart key and the
\* start-over key, when the selected clothing type is tshirts no blazer or
\* tie is recorded and the substep has not been accessories_selection,
\* blazer_selection or tie_selection since the last restart; and whenever the
\* step is complete with the clothing type shirts, the substep has been
\* accessories_selection since the last restart.
C7_TShirtNoAccessory ==
    /\ selected_clothing_type = <<"tshirts">> =>
         /\ NoAccessory
         /\ visited \cap AccessoryBranches = {}
    /\ (current_step = "complete" /\ selected_clothing_type = <<"shirts">>) =>
         "accessories_selection" \in visited

\* a t-shirt was chosen, the start-over key brought the workflow back, and
\* the clothing step is being shown again
C7_Witness ==
    /\ selected_clothing_type = <<"tshirts">>
    /\ current_step = "clothing_selection"
    /\ visited = { "initial", "tshirt_selection" }

\* C8: from every reachable state the restart key leaves the workflow state
\* that __init__ leaves (step welcome, no substep, no background, no clothing
\* category, type or item, no accessories, welcome and face timers cleared),
\* and a second restart changes nothing.
C8_RestartIdempotent ==
    [][KeyRestart =>
         /\ WorkflowState' = InitialWorkflowState
         /\ restart_application(WorkflowState') = WorkflowState']_vars

\* a restart has acted after the accessory choice was on the screen
C8_Witness ==
    /\ pc = "frame"
    /\ WorkflowState = InitialWorkflowState
    /\ current_popup_type = "accessories"

TShirtTrail ==
    << <<"background_selection", 2>>, <<"initial", 0>>, <<"tshirt_selection", 1>> >>

\* C9: once the welcome screen has timed out and the face was held long
\* enough to reach the background selection, when the accepted clicks were
\* background 2, then target 0 of the initial choice, then item 1 of the
\* t-shirt picker, the frame of the last of these clicks leaves the step at
\* complete, the background at backgrounds[2] (counted from 0), the clothing
\* type at tshirts, the clothing item at 1 and no accessory recorded.
C9_TShirtPath ==
    [][ (trail' = TShirtTrail /\ trail # TShirtTrail) =>
          /\ current_step' = "complete"
          /\ selected_background' = <<backgrounds[3]>>
          /\ selected_clothing_type' = <<"tshirts">>
          /\ selected_clothing_item' = <<1>>
          /\ selected_accessories' = None
      ]_vars

C9_Witness ==
    /\ trail = TShirtTrail
    /\ current_step = "complete"
    /\ pc = "key"

ShirtTieTrail ==
    << <<"background_selection", 0>>, <<"initial", 1>>, <<"shirt_selection", 0>>,
       <<"accessories_selection", 1>>, <<"tie_selection", 2>> >>

\* C10: from the background selection, when the accepted clicks were
\* background 0, then target 1 (shirts) of the initial choice, then item 0 of
\* the shirt picker, then the ties target of the accessory choice, then item 2
\* of the tie picker, the substeps shirt_selection, accessories_selection and
\* tie_selection were passed, and the frame of the last of these clicks
\* leaves the step at complete, the clothing type at shirts, the clothing item
\* at 0 and the accessory recorded as ties with item 2.
C10_ShirtTiePath ==
    [][ (trail' = ShirtTieTrail /\ trail # ShirtTieTrail) =>
          /\ { "shirt_selection", "accessories_selection", "tie_selection" }
                \subseteq visited'
          /\ current_step' = "complete"
          /\ selected_background' = <<backgrounds[1]>>
          /\ selected_clothing_type' = <<"shirts">>
          /\ selected_clothing_item' = <<0>>
          /\ selected_accessories' # None
          /\ DOMAIN selected_accessories'[1] = { "ties" }
          /\ selected_accessories'[1]["ties"] = 2
      ]_vars

C10_Witness ==
    /\ trail = ShirtTieTrail
    /\ selected_accessories # None
    /\ pc = "key"

\* the steps whose transitions are driven by clicks
ClickDriven(w) == w.current_step \in { "background_selection", "clothing_selection" }

\* step, substep (no substep yet reads as the initial choice) and selections
Progress(w) ==
    [ step        |-> w.current_step,
      substep     |-> IF w.clothing_step = None THEN <<"initial">> ELSE w.clothing_step,
      background  |-> w.selected_background,
      category    |-> w.selected_clothing_category,
      type        |-> w.selected_clothing_type,
      item        |-> w.selected_clothing_item,
      accessories |-> w.selected_accessories ]

\* the number of options or items the step of w offers, n items being available
OptionCount(w, n) ==
    IF w.current_step = "background_selection" THEN Len(backgrounds)
    ELSE IF ClothingBranch(w) = "initial" THEN Len(initial_options)
    ELSE IF ClothingBranch(w) = "accessories_selection" THEN Len(accessory_options)
    ELSE n

\* no hit, or an index from count on
StaleHits(count) == { None } \cup { <<k>> : k \in count..(GridCapacity + 1) }

\* C11: in background_selection and in every substep of clothing_selection, a
\* frame with a dwell-click whose hit query gives None leaves step, substep
\* and selections as they were, and so would the handler of the step for
\* every hit index from the number of options or items on.
C11_StaleHitIgnored ==
    [][(pc = "frame" /\ ClickDriven(WorkflowState) /\ is_clicking') =>
         LET count == OptionCount(WorkflowState, items_offered') IN
         /\ selected_idx' \in StaleHits(count) =>
              Progress(WorkflowState)' = Progress(WorkflowState)
         /\ \A idx \in StaleHits(count) :
              Progress(StepHandler(WorkflowState, idx, FALSE, items_offered', now'))
                = Progress(WorkflowState)]_vars

\* a dwell-click in the shirt picker, beside the items on offer
C11_Witness ==
    /\ pc = "key"
    /\ is_clicking
    /\ last_op = "query"
    /\ selected_idx = None
    /\ current_step = "clothing_selection"
    /\ clothing_step = <<"shirt_selection">>
    /\ items_offered > 0

\* C12: from every reachable state whose step is background_selection, a
\* dwell-click that hits target i, i below the number of backgrounds, sets the
\* background to backgrounds[i] and moves the workflow to clothing_selection
\* with the substep of the initial choice.
C12_BackgroundHit ==
    [][(/\ pc = "frame"
        /\ current_step = "background_selection"
        /\ is_clicking'
        /\ ValidIndex(selected_idx', Len(backgrounds))) =>
         /\ selected_background' = <<backgrounds[selected_idx'[1] + 1]>>
         /\ current_step' = "clothing_selection"
         /\ ClothingBranch(WorkflowState)' = "initial"]_vars

\* C13: after every entry into the welcome step (the start, the restart key,
\* the start-over key), a frame leaves the step at welcome while less than
\* 3.0 s have passed since that entry, and moves it to face_detection as soon
\* as 3.0 s or more have passed since that entry.
C13_WelcomeTiming ==
    [][(pc = "frame" /\ current_step = "welcome") =>
         current_step' = IF now' - welcome_entry' >= WelcomeDelay
                         THEN "face_detection" ELSE "welcome"]_vars

\* C14: a frame in face_detection moves the step to background_selection
\* exactly when the face signal has been true on every frame of the last
\* 2.0 s or more of the current stay in face_detection; a frame in
\* face_detection with the signal false resets the detection timer and keeps
\* the step.
C14_FaceTiming ==
    [][(pc = "frame" /\ current_step = "face_detection") =>
         /\ current_step' = IF face_since' # 0 /\ now' - face_since' >= FaceHold
                            THEN "background_selection" ELSE "face_detection"
         /\ ~cam_face_detected' =>
              face_detected_time' = 0 /\ current_step' = "face_detection"]_vars

\* C15: in the initial choice of clothing_selection, a dwell-click that hits
\* target 0 sets the clothing category to tshirts and the substep to
\* tshirt_selection, one that hits target 1 sets the category to shirts and
\* the substep to shirt_selection; the step stays clothing_selection and the
\* clothing type and item are unchanged.
C15_InitialChoice ==
    [][(/\ pc = "frame"
        /\ current_step = "clothing_selection"
        /\ ClothingBranch(WorkflowState) = "initial"
        /\ is_clicking'
        /\ selected_idx' \in { <<0>>, <<1>> }) =>
         /\ selected_idx' = <<0>> =>
              /\ selected_clothing_category' = <<"tshirts">>
              /\ clothing_step' = <<"tshirt_selection">>
         /\ selected_idx' = <<1>> =>
              /\ selected_clothing_category' = <<"shirts">>
              /\ clothing_step' = <<"shirt_selection">>
         /\ current_step' = "clothing_selection"
         /\ UNCHANGED <<selected_clothing_type, selected_clothing_item>>]_vars

\* the shirts target of the initial choice was just hit
C15_Witness ==
    /\ pc = "key"
    /\ is_clicking
    /\ current_popup_type = "initial_choice"
    /\ selected_idx = <<1>>
    /\ current_step = "clothing_selection"
    /\ clothing_step = <<"shirt_selection">>
    /\ selected_clothing_category = <<"shirts">>

\* C16: in accessories_selection, a dwell-click that hits target 0 (blazers)
\* moves the substep to blazer_selection, one that hits target 1 (ties) moves
\* it to tie_selection, one that hits target 2 (no accessories) moves the
\* step to complete; none of them changes the background, the clothing type,
\* the clothing item or the recorded accessories.
C16_AccessoryChoice ==
    [][(/\ pc = "frame"
        /\ current_step = "clothing_selection"
        /\ ClothingBranch(WorkflowState) = "accessories_selection"
        /\ is_clicking'
        /\ selected_idx' \in { <<0>>, <<1>>, <<2>> }) =>
         /\ selected_idx' = <<0>> =>
              clothing_step' = <<"blazer_selection">> /\ current_step' = "clothing_selection"
         /\ selected_idx' = <<1>> =>
              clothing_step' = <<"tie_selection">> /\ current_step' = "clothing_selection"
         /\ selected_idx' = <<2>> =>
              clothing_step' = clothing_step /\ current_step' = "complete"
         /\ UNCHANGED <<selected_background, selected_clothing_type,
                        selected_clothing_item, selected_accessories>>]_vars

\* the no-accessories target was just hit, a shirt being selected
C16_Witness ==
    /\ pc = "key"
    /\ is_clicking
    /\ current_popup_type = "accessories"
    /\ selected_idx = <<2>>
    /\ current_step = "complete"
    /\ clothing_step = <<"accessories_selection">>
    /\ selected_clothing_type = <<"shirts">>

\* C17: while the clothing engine gives no item for the category of the
\* picker substep the workflow is in (tshirt_selection, shirt_selection,
\* blazer_selection, tie_selection), a frame leaves step, substep and
\* selections unchanged, whatever the pointer, the click and the time; and
\* once the latest frame ran in that picker and was given no item, the only
\* step that takes the workflow out of the picker is the restart key.
C17_EmptyCategoryStall ==
    [][/\ (/\ pc = "frame"
           /\ current_step = "clothing_selection"
           /\ IsPicker(ClothingBranch(WorkflowState))
           /\ items_offered' = 0) =>
            Progress(WorkflowState)' = Progress(WorkflowState)
       /\ (/\ pc = "key"
           /\ current_step = "clothing_selection"
           /\ IsPicker(ClothingBranch(WorkflowState))
           /\ prev_place = ClothingBranch(WorkflowState)
           /\ items_offered = 0
           /\ \/ current_step' # current_step
              \/ ClothingBranch(WorkflowState)' # ClothingBranch(WorkflowState)) =>
            KeyRestart]_vars

\* two closed rectangles <<x1, y1, x2, y2>> have a point in common
Intersect(a, b) ==
    a[1] <= b[3] /\ b[1] <= a[3] /\ a[2] <= b[4] /\ b[2] <= a[4]

\* C18: in every layout on a 1280x720 frame (the grid of up to 8 targets,
\* the choice of two, the choice of three), no point of the visual area of a
\* target lies inside the click area of another target.
C18_ClickAreasApart ==
    frame_shape = <<FrameW, FrameH>> =>
      \A j, k \in 1..Len(popup_data) :
        j # k => ~Intersect(popup_data[j].visual_bounds, popup_data[k].click_bounds)

\* the positions and the id prefix of the layout of a type
LayoutPositions(type, fw, fh) ==
    CASE type \in { "bg", "category", "item" } -> GridPositions(fw, fh)
      [] type = "initial_choice" -> InitialChoicePositions(fw, fh)
      [] type = "accessories" -> AccessoryPositions(fw, fh)
      [] OTHER -> <<>>

PrefixOf(type) ==
    CASE type = "initial_choice" -> "initial"
      [] type = "accessories" -> "accessory"
      [] OTHER -> type

\* a popup at pos lies within the frame
Fits(pos, fw, fh) ==
    /\ pos[1] >= 0 /\ pos[2] >= 0
    /\ pos[1] + PopupW <= fw
    /\ pos[2] + PopupH + LabelH <= fh

\* the indices the latest layout call placed
PlacedNow ==
    IF frame_shape = None THEN {}
    ELSE { i \in 0..(laid_out - 1) :
             Fits(LayoutPositions(current_popup_type, frame_shape[1], frame_shape[2])[i + 1],
                  frame_shape[1], frame_shape[2]) }

\* C19: after any sequence of layout calls the registry holds exactly the
\* targets the latest call placed, each once: the ids of its type with the
\* indices it went through and that fit the frame; and a hit query only gives
\* the index of one of these, whose click area holds the pointer.
C19_LatestLayoutOnly ==
    /\ { popup_data[k].id : k \in 1..Len(popup_data) }
         = { <<PrefixOf(current_popup_type), i>> : i \in PlacedNow }
    /\ Len(popup_data) = Cardinality(PlacedNow)
    /\ (last_op = "query" /\ selected_idx # None) =>
         /\ selected_idx[1] \in PlacedNow
         /\ \E k \in 1..Len(popup_data) :
              /\ popup_data[k].id = <<PrefixOf(current_popup_type), selected_idx[1]>>
              /\ InBounds(popup_data[k].click_bounds, finger_pos[1], finger_pos[2])

\* the accessory choice replaced other targets, and one of its targets was hit
C19_Witness ==
    /\ dropped
    /\ current_popup_type = "accessories"
    /\ Len(popup_data) = 3
    /\ last_op = "query"
    /\ selected_idx = <<2>>

\* C20: the targets the registry holds after a layout call are those the
\* layout computes from the frame size, the template and the item count alone,
\* so two calls with the same inputs leave identical targets whatever the
\* registry held before each of them.
C20_LayoutDeterminism ==
    frame_shape # None =>
      popup_data = PlacePopups(<<>>,
                     LayoutPositions(current_popup_type, frame_shape[1], frame_shape[2]),
                     PrefixOf(current_popup_type), 0, laid_out,
                     frame_shape[1], frame_shape[2])

\* the grid of 8 on 1280x720, laid out over a registry that held other targets
C20_Witness ==
    /\ dropped
    /\ last_op = "layout"
    /\ current_popup_type = "bg"
    /\ frame_shape = <<FrameW, FrameH>>
    /\ laid_out = GridCapacity
    /\ Len(popup_data) = GridCapacity

(* ------------------------- layout geometry claims ------------------------- *)

GridTypes == { "bg", "category", "item" }

\* the y of row k of a column, for a frame of height fh
SlotY(k, fh) ==
    (fh - 4 * PopupH - 3 * popup_margin) \div 2 + k * (PopupH + popup_margin)

\* the x of the left and of the right column
LeftX == popup_margin + click_padding
RightX(fw) == fw - PopupW - popup_margin - click_padding

\* the slot of item i of a grid of 8
GridSlot(i, fw, fh) ==
    IF i < 4 THEN <<LeftX, SlotY(i, fh)>> ELSE <<RightX(fw), SlotY(i - 4, fh)>>

\* the slot of option i of the choice of two and of the choice of three
BinarySlot(i, fw, fh) ==
    IF i = 0 THEN <<LeftX, SlotY(1, fh)>> ELSE <<RightX(fw), SlotY(1, fh)>>

TernarySlot(i, fw, fh) ==
    CASE i = 0 -> <<LeftX, SlotY(1, fh)>>
      [] i = 1 -> <<fw \div 2 - PopupW \div 2, SlotY(1, fh)>>
      [] OTHER -> <<RightX(fw), SlotY(1, fh)>>

\* the indices of the targets the registry holds
Registered == { popup_data[k].index : k \in 1..Len(popup_data) }

\* the target of index i in the registry
TargetOf(i) == popup_data[CHOOSE k \in 1..Len(popup_data) : popup_data[k].index = i]

\* C21: in a grid layout of n items, item i below min(n, 8) lies at slot i of
\* the left column when i < 4 and at slot i - 4 of the right column otherwise,
\* with left x = margin + click_padding, right x = screen_w - target_w -
\* margin - click_padding and y = (screen_h - 4*target_h - 3*margin) div 2 +
\* k*(target_h + margin) for row k; every such item whose popup fits the frame
\* is placed, and no item of index 8 or more is ever placed.
C21_GridLayout ==
    (current_popup_type \in GridTypes /\ frame_shape # None) =>
      /\ laid_out <= GridCapacity
      /\ \A i \in Registered :
           /\ i < laid_out
           /\ TargetOf(i).position = GridSlot(i, frame_shape[1], frame_shape[2])
      /\ \A i \in 0..(laid_out - 1) :
           Fits(GridSlot(i, frame_shape[1], frame_shape[2]), frame_shape[1], frame_shape[2])
             => i \in Registered

\* a grid of more than 8 items on a 1280x720 frame: 8 targets, the fifth at
\* the top of the right column
C21_Witness ==
    /\ current_popup_type = "item"
    /\ frame_shape = <<FrameW, FrameH>>
    /\ overfull
    /\ Len(popup_data) = GridCapacity
    /\ popup_data[5].index = 4
    /\ popup_data[5].position = <<1110, 90>>

\* C22: the choice of two places at most 2 targets, index 0 at the second
\* slot of the left column and index 1 at the second slot of the right column;
\* the choice of three places at most 3, index 0 at the second left slot,
\* index 1 at x = screen_w div 2 - target_w div 2 with the y of the left slot,
\* index 2 at the second right slot; further options are dropped.
C22_ChoiceLayout ==
    frame_shape # None =>
      /\ current_popup_type = "initial_choice" =>
           /\ laid_out <= 2
           /\ \A i \in Registered :
                /\ i < laid_out
                /\ TargetOf(i).position = BinarySlot(i, frame_shape[1], frame_shape[2])
           /\ \A i \in 0..(laid_out - 1) :
                Fits(BinarySlot(i, frame_shape[1], frame_shape[2]),
                     frame_shape[1], frame_shape[2]) => i \in Registered
      /\ current_popup_type = "accessories" =>
           /\ laid_out <= 3
           /\ \A i \in Registered :
                /\ i < laid_out
                /\ TargetOf(i).position = TernarySlot(i, frame_shape[1], frame_shape[2])
           /\ \A i \in 0..(laid_out - 1) :
                Fits(TernarySlot(i, frame_shape[1], frame_shape[2]),
                     frame_shape[1], frame_shape[2]) => i \in Registered

\* a choice of three given more than 3 options on a 1280x720 frame: the
\* middle target at x = 580, level with the left one
C22_Witness ==
    /\ current_popup_type = "accessories"
    /\ frame_shape = <<FrameW, FrameH>>
    /\ overfull
    /\ Len(popup_data) = 3
    /\ popup_data[2].index = 1
    /\ popup_data[2].position = <<580, 230>>
    /\ popup_data[1].position[2] = 230

\* the slot the layout of a type gives to item i
SlotOf(type, i, fw, fh) ==
    CASE type = "initial_choice" -> BinarySlot(i, fw, fh)
      [] type = "accessories" -> TernarySlot(i, fw, fh)
      [] OTHER -> GridSlot(i, fw, fh)

\* the visual area of a target lies within the frame
VisualInside(t, fw, fh) ==
    /\ t.visual_bounds[1] >= 0 /\ t.visual_bounds[2] >= 0
    /\ t.visual_bounds[3] <= fw /\ t.visual_bounds[4] <= fh

\* C23: a target whose visual area would not lie entirely inside the frame is
\* not registered and no hit or hover query gives it, while the other targets
\* of the call are registered at their slots under their original indices.
C23_UnfittingSkipped ==
    frame_shape # None =>
      /\ \A k \in 1..Len(popup_data) :
           /\ VisualInside(popup_data[k], frame_shape[1], frame_shape[2])
           /\ popup_data[k].id = <<PrefixOf(current_popup_type), popup_data[k].index>>
           /\ popup_data[k].position =
                SlotOf(current_popup_type, popup_data[k].index, frame_shape[1], frame_shape[2])
      /\ \A i \in 0..(laid_out - 1) :
           LET pos == SlotOf(current_popup_type, i, frame_shape[1], frame_shape[2])
           IN  (i \in Registered) <=> Fits(pos, frame_shape[1], frame_shape[2])
      /\ last_op = "query" =>
           /\ selected_idx # None =>
                Fits(SlotOf(current_popup_type, selected_idx[1], frame_shape[1], frame_shape[2]),
                     frame_shape[1], frame_shape[2])
           /\ hovered # None =>
                Fits(SlotOf(current_popup_type, hovered[1][2], frame_shape[1], frame_shape[2]),
                     frame_shape[1], frame_shape[2])

\* a grid of 8 on a 300x301 frame: only the second row fits, its targets keep
\* the indices 1 and 5, and a query hits the one of index 5
C23_Witness ==
    /\ frame_shape = <<300, 301>>
    /\ current_popup_type \in GridTypes
    /\ laid_out = GridCapacity
    /\ Len(popup_data) = 2
    /\ popup_data[1].index = 1
    /\ popup_data[2].index = 5
    /\ last_op = "query"
    /\ selected_idx = <<5>>
    /\ hovered = << <<PrefixOf(current_popup_type), 5>> >>

\* C24: after a layout call with zero items the registry holds no target, and
\* the hit query and the hover query give None for every pointer.
C24_EmptyLayout ==
    (laid_out = 0 /\ frame_shape # None) =>
      /\ popup_data = <<>>
      /\ last_op = "query" => (selected_idx = None /\ hovered = None)
      /\ \A p \in ProbePoints(popup_data) :
           /\ check_popup_click(popup_data, p) = None
           /\ highlight_popup_on_hover(popup_data, p) = None

\* a layout of zero items replaced a layout with targets, and the pointer is
\* queried where a target was
C24_Witness ==
    /\ laid_out = 0
    /\ dropped
    /\ frame_shape = <<FrameW, FrameH>>
    /\ last_op = "query"
    /\ finger_pos = <<110, 310>>

\* C25: for every content of the registry and every pointer, the target the
\* hover query highlights is the first in registration order whose click area
\* holds the pointer, its index is the result of the hit query for the same
\* pointer, and the hover finds no target exactly when the hit query gives None.
C25_HoverAgreesWithHit ==
    /\ \A p \in ProbePoints(popup_data) :
         LET hov == highlight_popup_on_hover(popup_data, p)
             hit == check_popup_click(popup_data, p)
         IN  /\ (hov = None) <=> (hit = None)
             /\ hov # None =>
                  \E k \in 1..Len(popup_data) :
                    /\ popup_data[k].id = hov[1]
                    /\ popup_data[k].index = hit[1]
                    /\ InBounds(popup_data[k].click_bounds, p[1], p[2])
                    /\ \A j \in 1..(k - 1) :
                         ~InBounds(popup_data[j].click_bounds, p[1], p[2])
    /\ last_op = "query" =>
         /\ (hovered = None) <=> (selected_idx = None)
         /\ hovered # None => hovered[1][2] = selected_idx[1]

\* a query with the pointer in the click padding of a target, outside its
\* visual area, and inside the click area of a later target as well
C25_Witness ==
    /\ last_op = "query"
    /\ hovered # None
    /\ selected_idx # None
    /\ \E k \in 1..Len(popup_data) :
         /\ popup_data[k].index = selected_idx[1]
         /\ ~InBounds(popup_data[k].visual_bounds, finger_pos[1], finger_pos[2])
         /\ \E j \in (k + 1)..Len(popup_data) :
              InBounds(popup_data[j].click_bounds, finger_pos[1], finger_pos[2])

(* --------------------------- frame effect claims --------------------------- *)

\* C26: save_result is called on a frame exactly when the frame begins in
\* the step complete and the tracker reports a click with a pointer on that
\* frame, wherever the pointer is; it is called in no other step, and not on
\* the frame whose click moves the workflow to complete.
C26_SaveTrigger ==
    [][ pc = "frame" =>
          (saved' <=> (current_step = "complete" /\ is_clicking' /\ finger_pos' # None))
      ]_vars

\* a save with the pointer at the centre of the frame, on no target of the
\* last layout
C26_Witness ==
    /\ pc = "key"
    /\ saved
    /\ current_step = "complete"
    /\ finger_pos = <<640, 310>>
    /\ check_popup_click(popup_data, finger_pos) = None

\* the timer of the welcome step, resp. of the face step, has run out on the
\* frame being processed
WelcomeDue ==
    /\ current_step = "welcome"
    /\ welcome_start_time' # None
    /\ now' - welcome_start_time'[1] > WelcomeDelay

FaceDue ==
    /\ current_step = "face_detection"
    /\ cam_face_detected'
    /\ face_detected_time' # 0
    /\ now' - face_detected_time' > FaceHold

\* C27: on a frame on which no click fires and neither the welcome timer nor
\* the face timer has run out, step, substep and all selections stay as they
\* are, whether the pointer is over a target or not.
C27_OnlyTriggersChange ==
    [][ (pc = "frame" /\ ~is_clicking' /\ ~WelcomeDue /\ ~FaceDue) =>
          Progress(WorkflowState)' = Progress(WorkflowState)
      ]_vars

\* a frame of the background step with the pointer over a target and no click
C27_Witness ==
    /\ pc = "key"
    /\ prev_place = "background_selection"
    /\ current_step = "background_selection"
    /\ hovered # None
    /\ ~is_clicking
    /\ selected_background = None

StepOrder ==
    << "welcome", "face_detection", "background_selection", "clothing_selection", "complete" >>

StepRank(step) == CHOOSE i \in 1..Len(StepOrder) : StepOrder[i] = step

\* the moves between substeps of clothing_selection
SubstepEdges ==
    { <<"initial", "tshirt_selection">>, <<"initial", "shirt_selection">>,
      <<"shirt_selection", "accessories_selection">>,
      <<"accessories_selection", "blazer_selection">>,
      <<"accessories_selection", "tie_selection">> }

Substep(cs) == IF cs = None THEN "initial" ELSE cs[1]

\* the step, or the substep of clothing_selection, of the present state
Place == IF current_step = "clothing_selection" THEN Substep(clothing_step) ELSE current_step

\* the frame makes no move, one move to the next step, or one move between
\* substeps
OneTransition ==
    \/ /\ current_step' = current_step
       /\ Substep(clothing_step') = Substep(clothing_step)
    \/ /\ StepRank(current_step') = StepRank(current_step) + 1
       /\ Substep(clothing_step') = Substep(clothing_step)
    \/ /\ current_step = "clothing_selection"
       /\ current_step' = current_step
       /\ <<Substep(clothing_step), Substep(clothing_step')>> \in SubstepEdges

\* the selections the frame changes
ChangedSelections ==
    { g \in { "background", "category", "item", "accessories" } :
        CASE g = "background" -> selected_background' # selected_background
          [] g = "category" -> selected_clothing_category' # selected_clothing_category
          [] g = "item" -> <<selected_clothing_type', selected_clothing_item'>>
                             # <<selected_clothing_type, selected_clothing_item>>
          [] OTHER -> selected_accessories' # selected_accessories }

\* the selection the handler of a step or substep makes
SelectionOf(place) ==
    CASE place = "background_selection" -> { "background" }
      [] place = "initial" -> { "category" }
      [] place \in { "tshirt_selection", "shirt_selection" } -> { "item" }
      [] place \in { "blazer_selection", "tie_selection" } -> { "accessories" }
      [] OTHER -> {}

\* C28: a frame runs the handler of the step it begins in and no other: it
\* makes at most one move between steps or substeps, and changes at most one
\* selection, the one of the step or substep it begins in, and only with a
\* click.
C28_OnePassPerFrame ==
    [][ pc = "frame" =>
          /\ OneTransition
          /\ ChangedSelections \subseteq SelectionOf(Place)
          /\ ChangedSelections # {} => is_clicking'
      ]_vars

\* the frame whose click chose the second background: the hit index 1 would
\* be valid in the initial choice too, and no category is chosen
C28_Witness ==
    /\ pc = "key"
    /\ prev_place = "background_selection"
    /\ current_step = "clothing_selection"
    /\ selected_idx = <<1>>
    /\ selected_background = <<backgrounds[2]>>
    /\ Substep(clothing_step) = "initial"
    /\ selected_clothing_category = None

\* C29: on a frame of the face step, once a face was detected, the face
\* signal is true exactly when no more than 1.0 s has passed since the last
\* detection; on a frame without a detection a running hold timer goes on
\* when the gap is at most 1.0 s and is reset when it is longer.
C29_FaceDebounce ==
    [][ (pc = "frame" /\ current_step = "face_detection") =>
          /\ last_face_time' # 0 =>
               (cam_face_detected' <=> now' - last_face_time' <= FaceTolerance)
          /\ last_face_time' = 0 => ~cam_face_detected'
          /\ (face_detected_time # 0 /\ last_face_time' # 0 /\ last_face_time' # now') =>
               IF now' - last_face_time' <= FaceTolerance
               THEN face_detected_time' # 0 /\ face_detected_time' < now'
               ELSE face_detected_time' = 0
      ]_vars

\* a frame without a detection exactly 1.0 s after the last one: the signal
\* holds and the hold timer runs on
C29_Witness ==
    /\ pc = "key"
    /\ prev_place = "face_detection"
    /\ current_step = "face_detection"
    /\ cam_face_detected
    /\ last_face_time = now - FaceTolerance
    /\ face_detected_time # 0
    /\ face_detected_time < now

\* the target of the registry after the frame that the hit query gave
HitTarget ==
    popup_data'[CHOOSE k \in 1..Len(popup_data') : popup_data'[k].index = selected_idx'[1]]

\* C30: whenever a click selects a target in a click-driven step, the frame
\* before (frames are less than hold_threshold apart, so it lies in the
\* dwell interval) began in the same step and substep and had the pointer
\* inside the click area of that target.
C30_DwellOverTarget ==
    [][ ( /\ pc = "frame"
          /\ ClickDriven(WorkflowState)
          /\ selected_idx' # None
          /\ Progress(WorkflowState)' # Progress(WorkflowState) ) =>
          /\ prev_place = Place
          /\ finger_pos # None
          /\ InBounds(HitTarget.click_bounds, finger_pos[1], finger_pos[2])
      ]_vars

(* ------------------------- tracker behaviour claims ------------------------ *)

\* C32: whatever the samples are (present, absent, moving, still), two frames
\* on which the tracker reports a click are at least hold_threshold apart.
C32_ClickSpacing ==
    [][ (is_clicking' /\ last_click_time # 0) =>
          now' - last_click_time >= hold_threshold
      ]_vars

\* a second click on the same anchor, exactly hold_threshold after the first
C32_Witness ==
    /\ is_clicking
    /\ clicks_on_anchor = 2
    /\ last_click_time = now
    /\ now - prev_hold_start_time = hold_threshold

\* p lies within stability_radius of q
Near(p, q) == Dist2(p, q) <= stability_radius * stability_radius

\* C34: a sample within stability_radius of the anchor leaves the anchor where
\* it is, so on a frame that reports a click every sample since the anchor was
\* set, the clicked one included, lies within stability_radius of it; and a
\* sample farther than stability_radius from the anchor cancels the dwell (new
\* anchor, new hold time, no click) however close it is to the sample before.
C34_AnchorFixed ==
    [][ /\ (last_pos # None /\ finger_pos' # None /\ Near(finger_pos', last_pos)) =>
             last_pos' = last_pos
        /\ (last_pos # None /\ finger_pos' # None /\ ~Near(finger_pos', last_pos)) =>
             /\ last_pos' = finger_pos'
             /\ hold_start_time' = now'
             /\ ~is_clicking'
        /\ is_clicking' =>
             /\ last_pos' = last_pos
             /\ \A p \in since_anchor' : Near(p, last_pos')
             /\ finger_pos' \in since_anchor'
      ]_vars

\* the pointer went from the anchor (100, 100) to (115, 120), within the
\* radius, and then to (100, 126), 16 pixels on but 26 from the anchor: the
\* anchor is set anew
C34_Witness ==
    /\ prev_last_pos = <<100, 100>>
    /\ prev_finger_pos = <<115, 120>>
    /\ finger_pos = <<100, 126>>
    /\ last_pos = <<100, 126>>
    /\ anchor_since = now
    /\ hold_start_time = now
    /\ ~is_clicking

(* ------------------------- workflow safety claims -------------------------- *)

\* the layout the handler of a step or substep draws
TypeOfPlace(place) ==
    CASE place = "background_selection" -> "bg"
      [] place = "initial" -> "initial_choice"
      [] place = "accessories_selection" -> "accessories"
      [] OTHER -> "item"

\* C31: whenever a handler makes a hit query for a click, the registry holds
\* the targets laid out in that frame for the step and substep the frame
\* began in, one per option, so the index it gets is one of the options of
\* that step and never a target of the layout of a step before.
C31_NoStaleHitTest ==
    [][ (pc = "frame" /\ last_op' = "query") =>
          LET count == OptionCount(WorkflowState, items_offered')
              type  == TypeOfPlace(Place)
          IN  /\ current_popup_type' = type
              /\ Len(popup_data') = Min(count, GridCapacity)
              /\ \A k \in 1..Len(popup_data') :
                   popup_data'[k].id = <<PrefixOf(type), k - 1>>
              /\ selected_idx' # None =>
                   /\ selected_idx'[1] < count
                   /\ InBounds(popup_data'[selected_idx'[1] + 1].click_bounds,
                               finger_pos'[1], finger_pos'[2])
      ]_vars

\* a click on the third accessory option, in the frame after the one whose
\* click on a shirt moved the workflow from the item grid to the accessory
\* choice: the index 2 is an option of the accessory choice
C31_Witness ==
    /\ pc = "key"
    /\ last_op = "query"
    /\ prev_place = "accessories_selection"
    /\ current_popup_type = "accessories"
    /\ selected_idx = <<2>>
    /\ current_step = "complete"

\* C33: for every target of a grid layout on the 1280x720 frame of the
\* application and every pointer inside its visual area, the hit query gives
\* the index of that target.
C33_VisualHit ==
    (current_popup_type \in GridTypes /\ frame_shape = <<FrameW, FrameH>>) =>
      \A k \in 1..Len(popup_data) :
        \A p \in ProbePoints(popup_data) \ { None } :
          InBounds(popup_data[k].visual_bounds, p[1], p[2]) =>
            check_popup_click(popup_data, p) = <<popup_data[k].index>>

\* C35: in every state of the step complete the background, the clothing type
\* and the clothing item are set, and in every state of the step
\* clothing_selection the background is set.
C35_SelectionsPresent ==
    /\ current_step = "complete" =>
         /\ selected_background # None
         /\ selected_clothing_type # None
         /\ selected_clothing_item # None
    /\ current_step = "clothing_selection" => selected_background # None

\* the workflow came back to clothing_selection after a start-over, straight
\* into the accessory choice it had reached before
C35_Witness ==
    /\ pc = "key"
    /\ prev_place = "background_selection"
    /\ current_step = "clothing_selection"
    /\ Substep(clothing_step) = "accessories_selection"
    /\ selected_background # None
    /\ selected_clothing_type = <<"shirts">>

\* C36: the recorded accessories hold blazers or ties, never both, and an
\* accessory is only recorded with the clothing type shirts.
C36_OneAccessory ==
    selected_accessories # None =>
      /\ DOMAIN selected_accessories[1] \in { {"blazers"}, {"ties"} }
      /\ selected_clothing_type = <<"shirts">>

\* a blazer was chosen a second time, after a start-over that kept the first
C36_Witness ==
    /\ pc = "key"
    /\ prev_place = "blazer_selection"
    /\ current_step = "complete"
    /\ last_op = "query"
    /\ selected_idx = <<1>>
    /\ selected_accessories # None
    /\ DOMAIN selected_accessories[1] = {"blazers"}
    /\ Len(trail) = 2
    /\ trail[1][1] = "background_selection"
    /\ trail[2] = <<"blazer_selection", 1>>

\* C37: once the step is complete no frame changes step, substep or a
\* selection, whatever the pointer does; the step is left by a key only, for
\* the welcome step.
C37_CompleteAbsorbing ==
    [][ current_step = "complete" =>
          /\ pc = "frame" => Progress(WorkflowState)' = Progress(WorkflowState)
          /\ current_step' # "complete" => (pc = "key" /\ current_step' = "welcome")
      ]_vars

\* a frame of the step complete with a click: the result is saved and the
\* step stays
C37_Witness ==
    /\ pc = "key"
    /\ prev_place = "complete"
    /\ current_step = "complete"
    /\ is_clicking
    /\ saved
    /\ check_popup_click(popup_data, finger_pos) # None

\* C38: the key 's' sets the step to welcome and leaves the background, the
\* clothing category, type and item, the accessories, the clothing substep,
\* the welcome start time and the face timer as they were.
C38_StartOverKeeps ==
    [][ KeyStartOver =>
          /\ current_step' = "welcome"
          /\ UNCHANGED <<selected_background, selected_clothing_category,
                         selected_clothing_type, selected_clothing_item,
                         selected_accessories, clothing_step,
                         welcome_start_time, face_detected_time>>
      ]_vars

\* the welcome step with everything a finished session had chosen, which only
\* the key 's' gives
C38_Witness ==
    /\ pc = "frame"
    /\ current_step = "welcome"
    /\ prev_place = "complete"
    /\ selected_background # None
    /\ selected_clothing_type = <<"shirts">>
    /\ selected_clothing_item # None
    /\ selected_accessories # None
    /\ Substep(clothing_step) = "tie_selection"
    /\ welcome_start_time # None
    /\ face_detected_time # 0

====
